---- MODULE Spec2Model ----
(***************************************************************************)
(* Model of src/code_sciname.py: the name canonicalizer and parser, the    *)
(* base-code derivation, the per-group tie resolution, and the fill-only   *)
(* join of main().                                                         *)
(*                                                                         *)
(* A Python str is a sequence of one-character strings; the pandas missing *)
(* value NaN is the one-element tuple NaN below, which is no such sequence.*)
(* Python indexes from 0 and TLA+ from 1: every index of the source is     *)
(* kept as the source writes it and 1 is added where a sequence is read.   *)
(***************************************************************************)
EXTENDS Integers, Sequences, FiniteSets, TLC

VARIABLES
    pc,                 \* position in the function or script being run
    name_with_author,   \* parse_scientific_name: its argument
    tokens,             \* parse_scientific_name: name_with_author.strip().split()
    i,                  \* parse_scientific_name: the loop index (0-based)
    genus,              \* parse_scientific_name: locals
    species,
    subspecies,
    group,              \* resolve_ties: the rows of one base_code group
    base,               \* resolve_ties: group.name
    species_list,       \* resolve_ties: group["species_full"].tolist()
    max_len,
    codenames,
    idx,                \* resolve_ties: the extension loop's offset
    any_collision,
    seen,               \* resolve_ties: the fallback's dict, a function on its keys
    n_ext,              \* history: iterations of the extension loop run so far
    n_fallback,         \* history: fallback passes run so far
    pre_fallback,       \* history: codenames as the extension loop left them
    air_df,             \* main: the target table
    plant_df,           \* main: the reference table (its name column)
    plant_parsed,
    resolved,
    mapping_df,
    merged,
    is_blank,
    out_joined          \* main: what to_csv wrote

parseVars == <<name_with_author, tokens, i, genus, species, subspecies>>
tieVars == <<group, base, species_list, max_len, codenames, idx, any_collision,
             seen, n_ext, n_fallback, pre_fallback>>
mainVars == <<air_df, plant_df, plant_parsed, resolved, mapping_df, merged,
              is_blank, out_joined>>
vars == <<pc, parseVars, tieVars, mainVars>>

-----------------------------------------------------------------------------
(* Characters and strings *)

NaN == <<"NaN">>
Unset == <<"unset">>

isinstance_str(s) == s # NaN /\ s # Unset

LowerLetters == <<"a","b","c","d","e","f","g","h","i","j","k","l","m",
                  "n","o","p","q","r","s","t","u","v","w","x","y","z">>
UpperLetters == <<"A","B","C","D","E","F","G","H","I","J","K","L","M",
                  "N","O","P","Q","R","S","T","U","V","W","X","Y","Z">>

AZ == {LowerLetters[k] : k \in 1..26}
UpperAZ == {UpperLetters[k] : k \in 1..26}

\* Characters outside ASCII are named by their Python escapes.
Acute == "\\u0301"       \* COMBINING ACUTE ACCENT
e_acute == "\\u00e9"     \* LATIN SMALL LETTER E WITH ACUTE
E_acute == "\\u00c9"     \* LATIN CAPITAL LETTER E WITH ACUTE
sharp_s == "\\u00df"     \* LATIN SMALL LETTER SHARP S (no decomposition, lower() keeps it)

\* unicodedata.normalize("NFKD", ch) on the characters the model feeds it
NFKD(ch) ==
    IF ch = e_acute THEN <<"e", Acute>>
    ELSE IF ch = E_acute THEN <<"E", Acute>>
    ELSE <<ch>>

\* unicodedata.combining(ch) # 0
combining(ch) == ch = Acute

\* str.lower() on one character
lower_ch(ch) ==
    IF ch \in UpperAZ
    THEN LowerLetters[CHOOSE k \in 1..26 : UpperLetters[k] = ch]
    ELSE IF ch = E_acute THEN e_acute
    ELSE ch

lower(s) == [k \in 1..Len(s) |-> lower_ch(s[k])]

RECURSIVE Flatten(_)
Flatten(ss) == IF ss = <<>> THEN <<>> ELSE Head(ss) \o Flatten(Tail(ss))

RECURSIVE Filter(_, _)
Filter(s, keep) ==
    IF s = <<>> THEN <<>>
    ELSE (IF Head(s) \in keep THEN <<Head(s)>> ELSE <<>>) \o Filter(Tail(s), keep)

RECURSIVE DropCombining(_)
DropCombining(s) ==
    IF s = <<>> THEN <<>>
    ELSE (IF combining(Head(s)) THEN <<>> ELSE <<Head(s)>>) \o DropCombining(Tail(s))

\* s[:n]
Prefix(s, n) == SubSeq(s, 1, IF n < Len(s) THEN n ELSE Len(s))

\* s[n:]
Suffix(s, n) == SubSeq(s, n + 1, Len(s))

\* mutant: the letters are filtered before they are lowercased
normalize_token_no_lower(s) ==
    IF ~isinstance_str(s) THEN <<>>
    ELSE LET decomposed == Flatten([k \in 1..Len(s) |-> NFKD(s[k])])
         IN Filter(DropCombining(decomposed), AZ)

normalize_token(s) ==
    IF ~isinstance_str(s) THEN <<>>
    ELSE LET decomposed == Flatten([k \in 1..Len(s) |-> NFKD(s[k])])
             stripped == DropCombining(decomposed)
             lowered == lower(stripped)
         IN Filter(lowered, AZ)

\* the characters str.strip() and str.split() take for whitespace
\* (str.isspace): U+0009-000D, U+001C-001F, space, U+0085, U+00A0 and the
\* Unicode space separators; those TLA+ has no escape for are named by
\* their Python escapes
Whitespace ==
    { " ", "\t", "\n", "\r", "\f",
      "\\u0009", "\\u000a", "\\u000b", "\\u000c", "\\u000d",
      "\\u001c", "\\u001d", "\\u001e", "\\u001f", "\\u0020",
      "\\u0085", "\\u00a0", "\\u1680",
      "\\u2000", "\\u2001", "\\u2002", "\\u2003", "\\u2004", "\\u2005",
      "\\u2006", "\\u2007", "\\u2008", "\\u2009", "\\u200a",
      "\\u2028", "\\u2029", "\\u202f", "\\u205f", "\\u3000" }

RECURSIVE LStrip(_, _)
LStrip(s, chars) ==
    IF s # <<>> /\ Head(s) \in chars THEN LStrip(Tail(s), chars) ELSE s

RECURSIVE RStrip(_, _)
RStrip(s, chars) ==
    IF s # <<>> /\ s[Len(s)] \in chars
    THEN RStrip(SubSeq(s, 1, Len(s) - 1), chars) ELSE s

strip(s, chars) == RStrip(LStrip(s, chars), chars)

\* str.split(): the maximal runs of non-whitespace characters, in order
RECURSIVE SplitFrom(_, _)
SplitFrom(s, cur) ==
    IF s = <<>> THEN (IF cur = <<>> THEN <<>> ELSE <<cur>>)
    ELSE IF Head(s) \in Whitespace
         THEN (IF cur = <<>> THEN <<>> ELSE <<cur>>) \o SplitFrom(Tail(s), <<>>)
         ELSE SplitFrom(Tail(s), Append(cur, Head(s)))

split(s) == SplitFrom(s, <<>>)

-----------------------------------------------------------------------------
(* parse_scientific_name *)

UncertaintyQualifiers ==
    { <<"s","p">>, <<"s","p",".">>, <<"c","f">>, <<"c","f",".">>,
      <<"a","f","f">>, <<"a","f","f",".">>, <<"n","r">>, <<"n","r",".">> }

RankQualifiers ==
    { <<"s","u","b","s","p">>, <<"s","s","p">>, <<"v","a","r">>,
      <<"f","o","r","m","a">>, <<"f">> }

\* re.fullmatch(r"[A-Za-z-]+", raw)
fullmatch_alpha_hyphen(raw) ==
    /\ Len(raw) > 0
    /\ \A k \in 1..Len(raw) : raw[k] \in AZ \cup UpperAZ \cup {"-"}

\* One pass through the body of the while loop, on the loop's state
\* st = [i, species, subspecies].
parse_loop_body(toks, st) ==
    LET raw == toks[st.i + 1]
        t == strip(lower(raw), {"."})
    IN IF t \in UncertaintyQualifiers
       THEN [st EXCEPT !.i = @ + 2]
       ELSE IF st.species = <<>> /\ fullmatch_alpha_hyphen(raw)
       THEN [st EXCEPT !.species = normalize_token(raw), !.i = @ + 1]
       ELSE IF t \in RankQualifiers /\ st.i + 1 < Len(toks)
       THEN [st EXCEPT !.subspecies = normalize_token(toks[st.i + 2]), !.i = @ + 2]
       ELSE [st EXCEPT !.i = @ + 1]

RECURSIVE parse_loop(_, _)
parse_loop(toks, st) ==
    IF st.i < Len(toks) THEN parse_loop(toks, parse_loop_body(toks, st)) ELSE st

parse_scientific_name(name) ==
    IF ~isinstance_str(name) THEN <<<<>>, <<>>, <<>>>>
    ELSE LET toks == split(strip(name, Whitespace))
         IN IF toks = <<>> THEN <<<<>>, <<>>, <<>>>>
            ELSE LET st == parse_loop(toks, [i |-> 1, species |-> <<>>,
                                             subspecies |-> <<>>])
                 IN <<normalize_token(toks[1]), st.species, st.subspecies>>

-----------------------------------------------------------------------------
(* base_code and resolve_ties *)

base_code(g, s, sub) == lower(Prefix(g, 3) \o Prefix(s, 3) \o Prefix(sub, 3))

Max(a, b) == IF a > b THEN a ELSE b

RECURSIVE MaxLenOf(_)
MaxLenOf(ss) == IF ss = <<>> THEN 0 ELSE Max(Len(Head(ss)), MaxLenOf(Tail(ss)))

Digits == <<"0","1","2","3","4","5","6","7","8","9">>

\* str(n) for n >= 0, as f"{code}{seen[code]}" formats the count
RECURSIVE str_int(_)
str_int(n) == IF n < 10 THEN <<Digits[n + 1]>>
              ELSE str_int(n \div 10) \o <<Digits[(n % 10) + 1]>>

\* buckets[code]: the positions (0-based) holding code
bucket(codes, code) == {k \in 0..(Len(codes) - 1) : codes[k + 1] = code}

\* mutant: the letter one offset further on
chars_at_next(sl, at) ==
    [k \in 1..Len(sl) |-> IF at + 1 < Len(sl[k]) THEN <<sl[k][at + 2]>> ELSE <<>>]

\* chars = [s[idx] if idx < len(s) else "" for s in species_list]
chars_at(sl, at) ==
    [k \in 1..Len(sl) |-> IF at < Len(sl[k]) THEN <<sl[k][at + 1]>> ELSE <<>>]

\* any_collision after the bucket loop of one iteration
has_collision(codes) ==
    \E k \in 1..Len(codes) : Cardinality(bucket(codes, codes[k])) > 1

\* mutant: the letter is put in front of the code
extend_once_prepend(codes, sl, at) ==
    [k \in 1..Len(codes) |->
        IF Cardinality(bucket(codes, codes[k])) > 1
        THEN chars_at(sl, at)[k] \o codes[k]
        ELSE codes[k]]

\* codenames after the bucket loop of one iteration at offset `at`
extend_once(codes, sl, at) ==
    [k \in 1..Len(codes) |->
        IF Cardinality(bucket(codes, codes[k])) > 1
        THEN codes[k] \o chars_at(sl, at)[k]
        ELSE codes[k]]

\* mutant: the loop runs past the longest epithet
range_stop_late(ml) == ml + 5

\* line 117: the stop of range(3, max_len)
range_stop(ml) == ml

\* the for loop over range(3, max_len), from offset `at` on; the result
\* carries the number of iterations run
RECURSIVE extension_loop(_, _, _, _, _)
extension_loop(codes, sl, at, stop, n) ==
    IF at >= stop THEN [codenames |-> codes, n |-> n]
    ELSE IF ~has_collision(codes)
         THEN [codenames |-> extend_once(codes, sl, at), n |-> n + 1]
         ELSE extension_loop(extend_once(codes, sl, at), sl, at + 1, stop, n + 1)

\* the fallback loop from position k (0-based) on, with the dict `sn`
RECURSIVE fallback_from(_, _, _)
fallback_from(codes, k, sn) ==
    IF k >= Len(codes) THEN codes
    ELSE LET code == codes[k + 1]
         IN IF code \in DOMAIN sn
            THEN fallback_from([codes EXCEPT ![k + 1] = code \o str_int(sn[code] + 1)],
                               k + 1, [sn EXCEPT ![code] = @ + 1])
            ELSE fallback_from(codes, k + 1,
                               [c \in (DOMAIN sn) \cup {code} |->
                                   IF c = code THEN 1 ELSE sn[c]])

EmptyDict == [c \in {} |-> 0]

\* mutant: the count is never incremented, every repeat gets "2"
fallback_always_two(codes) ==
    [k \in 1..Len(codes) |->
        IF \E j \in 1..(k - 1) : codes[j] = codes[k]
        THEN codes[k] \o <<"2">> ELSE codes[k]]

\* mutant: the suffix is the count before it is incremented
fallback_count_before(codes) ==
    [k \in 1..Len(codes) |->
        LET occ == Cardinality({j \in 1..k : codes[j] = codes[k]})
        IN IF occ > 1 THEN codes[k] \o str_int(occ - 1) ELSE codes[k]]

fallback(codes) == fallback_from(codes, 0, EmptyDict)

\* resolve_ties on the rows of one group: the "codename" column of its result
resolve_ties(name, rows) ==
    IF Len(rows) = 1 THEN <<name>>
    ELSE LET sl == [k \in 1..Len(rows) |-> rows[k].species]
             start == [k \in 1..Len(rows) |-> name]
         IN fallback(extension_loop(start, sl, 3, range_stop(MaxLenOf(sl)), 0).codenames)

-----------------------------------------------------------------------------
(* Bounds and input sets *)

MaxTokens == 3
MaxGroup == 3
\* the longest run of letters a species epithet has past offset 3
MaxTail == 2

Words(L, n) == UNION {[1..m -> L] : m \in 0..n}

\* the tokens a raw name is made of: every branch of the parser's loop and
\* of the canonicalizer has a token here
TokenPool ==
    { <<"A","b">>, <<"a","b">>, <<E_acute,"l">>, <<"1","9">>, <<sharp_s>>,
      <<"c","f",".">>, <<"s","p">>, <<"v","a","r",".">>, <<"f",".">>,
      <<"a","-","b">>, <<"-">>, <<"(","L",".",")">> }

RECURSIVE join(_, _)
join(toks, sep) ==
    IF toks = <<>> THEN <<>>
    ELSE IF Len(toks) = 1 THEN toks[1]
    ELSE toks[1] \o sep \o join(Tail(toks), sep)

RawNames ==
    { lead \o join(toks, sep) \o trail :
        toks \in Words(TokenPool, MaxTokens),
        sep \in {<<" ">>, <<"\t", "\\u00a0">>},
        lead \in {<<>>, <<"\n">>}, trail \in {<<>>, <<"\r", "\n">>} }

\* normalized fields, as parse_scientific_name returns them: lowercase
\* letters only, any of them possibly empty
Letters == {"a", "b"}
GenusPool == { <<>>, <<"b">>, <<"a","b","a","b">> }
SubspeciesPool == { <<>>, <<"a">> }
\* what an epithet contributes to the base code (its first 3 letters or fewer)
SpeciesHeads == { <<>>, <<"a">>, <<"a","a">>, <<"a","a","a">> }

SpeciesPool ==
    { h \o t : h \in {x \in SpeciesHeads : Len(x) = 3}, t \in Words(Letters, MaxTail) }
    \cup SpeciesHeads

Taxa ==
    { [genus |-> g, species |-> s, subspecies |-> sub] :
        g \in GenusPool, s \in SpeciesPool, sub \in SubspeciesPool }

row_base_code(r) == base_code(r.genus, r.species, r.subspecies)

BaseCodes == { row_base_code(r) : r \in Taxa }

-----------------------------------------------------------------------------
(* parse_scientific_name, one loop iteration per step *)

ParseIdle ==
    /\ name_with_author = Unset /\ tokens = Unset /\ i = 0
    /\ genus = Unset /\ species = Unset /\ subspecies = Unset

TieIdle ==
    /\ group = Unset /\ base = Unset /\ species_list = Unset /\ max_len = 0
    /\ codenames = Unset /\ idx = 0 /\ any_collision = FALSE /\ seen = Unset
    /\ n_ext = 0 /\ n_fallback = 0 /\ pre_fallback = Unset

MainIdle ==
    /\ air_df = Unset /\ plant_df = Unset /\ plant_parsed = Unset
    /\ resolved = Unset /\ mapping_df = Unset /\ merged = Unset
    /\ is_blank = Unset /\ out_joined = Unset

InitParse ==
    /\ pc = "parse_split"
    /\ name_with_author \in RawNames
    /\ tokens = Unset /\ i = 0
    /\ genus = Unset /\ species = Unset /\ subspecies = Unset
    /\ TieIdle /\ MainIdle

\* lines 55-57: no tokens, return ("", "", "")
ParseEmpty ==
    /\ pc = "parse_split"
    /\ split(strip(name_with_author, Whitespace)) = <<>>
    /\ tokens' = <<>>
    /\ genus' = <<>> /\ species' = <<>> /\ subspecies' = <<>>
    /\ pc' = "parse_done"
    /\ UNCHANGED <<name_with_author, i, tieVars, mainVars>>

\* lines 55-63
ParseGenus ==
    /\ pc = "parse_split"
    /\ split(strip(name_with_author, Whitespace)) # <<>>
    /\ tokens' = split(strip(name_with_author, Whitespace))
    /\ genus' = normalize_token(tokens'[1])
    /\ species' = <<>> /\ subspecies' = <<>>
    /\ i' = 1
    /\ pc' = "parse_loop"
    /\ UNCHANGED <<name_with_author, tieVars, mainVars>>

\* lines 64-84: one iteration of the while loop
ParseToken ==
    /\ pc = "parse_loop"
    /\ i < Len(tokens)
    /\ LET st == parse_loop_body(tokens, [i |-> i, species |-> species,
                                          subspecies |-> subspecies])
       IN /\ i' = st.i
          /\ species' = st.species
          /\ subspecies' = st.subspecies
    /\ UNCHANGED <<pc, name_with_author, tokens, genus, tieVars, mainVars>>

\* line 86
ParseReturn ==
    /\ pc = "parse_loop"
    /\ i >= Len(tokens)
    /\ pc' = "parse_done"
    /\ UNCHANGED <<parseVars, tieVars, mainVars>>

NextParse == ParseEmpty \/ ParseGenus \/ ParseToken \/ ParseReturn

SpecParse == InitParse /\ [][NextParse]_vars

-----------------------------------------------------------------------------
(* resolve_ties on one group, one loop iteration per step *)

InitTies ==
    /\ pc = "tie_start"
    /\ \E b \in BaseCodes, n \in 1..MaxGroup :
          /\ base = b
          /\ group \in [1..n -> {r \in Taxa : row_base_code(r) = b}]
    /\ species_list = Unset /\ max_len = 0
    /\ codenames = Unset /\ idx = 0 /\ any_collision = FALSE /\ seen = Unset
    /\ n_ext = 0 /\ n_fallback = 0 /\ pre_fallback = Unset
    /\ ParseIdle /\ MainIdle

\* lines 105-108
TieSingle ==
    /\ pc = "tie_start"
    /\ Len(group) = 1
    /\ codenames' = <<base>>
    /\ pc' = "tie_done"
    /\ UNCHANGED <<group, base, species_list, max_len, idx, any_collision, seen,
                   n_ext, n_fallback, pre_fallback, parseVars, mainVars>>

\* lines 110-114
TieBegin ==
    /\ pc = "tie_start"
    /\ Len(group) # 1
    /\ species_list' = [k \in 1..Len(group) |-> group[k].species]
    /\ max_len' = MaxLenOf(species_list')
    /\ codenames' = [k \in 1..Len(group) |-> base]
    /\ idx' = 3
    /\ pc' = "tie_extend"
    /\ UNCHANGED <<group, base, any_collision, seen, n_ext, n_fallback,
                   pre_fallback, parseVars, mainVars>>

\* lines 117-135: one iteration of the for loop, with its break
TieExtend ==
    /\ pc = "tie_extend"
    /\ idx < range_stop(max_len)
    /\ any_collision' = has_collision(codenames)
    /\ codenames' = extend_once(codenames, species_list, idx)
    /\ n_ext' = n_ext + 1
    /\ IF any_collision'
       THEN /\ idx' = idx + 1
            /\ pc' = "tie_extend"
            /\ UNCHANGED pre_fallback
       ELSE /\ idx' = idx
            /\ pc' = "tie_fallback"
            /\ pre_fallback' = codenames'
    /\ UNCHANGED <<group, base, species_list, max_len, seen, n_fallback,
                   parseVars, mainVars>>

\* line 117: range(3, max_len) is exhausted
TieExtendEnd ==
    /\ pc = "tie_extend"
    /\ idx >= range_stop(max_len)
    /\ pre_fallback' = codenames
    /\ pc' = "tie_fallback"
    /\ UNCHANGED <<group, base, species_list, max_len, codenames, idx,
                   any_collision, seen, n_ext, n_fallback, parseVars, mainVars>>

\* lines 138-148: the fallback pass and the return
TieFallback ==
    /\ pc = "tie_fallback"
    /\ codenames' = fallback(codenames)
    /\ seen' = [c \in {codenames[k] : k \in 1..Len(codenames)} |->
                   Cardinality(bucket(codenames, c))]
    /\ n_fallback' = n_fallback + 1
    /\ pc' = "tie_done"
    /\ UNCHANGED <<group, base, species_list, max_len, idx, any_collision,
                   n_ext, pre_fallback, parseVars, mainVars>>

NextTies == TieSingle \/ TieBegin \/ TieExtend \/ TieExtendEnd \/ TieFallback

SpecTies == InitTies /\ [][NextTies]_vars

-----------------------------------------------------------------------------
(* main: the reference table to the mapping, and the join *)

MaxPlantRows == 3
MaxAirRows == 1

air_code_col == "Code for scientific name and authority in lookup table"
name_col == "Name"
site_col == "Site"

Range(f) == {f[k] : k \in DOMAIN f}

\* str.capitalize() on a canonical token
capitalize(s) ==
    IF s = <<>> THEN <<>>
    ELSE <<(IF s[1] \in AZ
            THEN UpperLetters[CHOOSE k \in 1..26 : LowerLetters[k] = s[1]]
            ELSE s[1])>> \o lower(Tail(s))

\* lines 171-179
sci_name_of(g, sp, sub) ==
    capitalize(g) \o <<" ">> \o sp
    \o (IF sub # <<>>
        THEN <<" ","s","u","b","s","p","."," ">> \o sub
        ELSE <<>>)

\* lines 166-186: one row of plant_parsed
parsed_row(name) ==
    LET t == parse_scientific_name(name)
    IN [genus |-> t[1], species |-> t[2], subspecies |-> t[3],
        sci_name |-> sci_name_of(t[1], t[2], t[3]),
        base_code |-> base_code(t[1], t[2], t[3])]

\* the rows of one group, in table order
RECURSIVE rows_with(_, _)
rows_with(rows, key) ==
    IF rows = <<>> THEN <<>>
    ELSE (IF Head(rows).base_code = key THEN <<Head(rows)>> ELSE <<>>)
         \o rows_with(Tail(rows), key)

\* the position (from 1) of table row k among the rows of its group
position_in_group(rows, k) ==
    Cardinality({j \in 1..k : rows[j].base_code = rows[k].base_code})

\* lines 188-192: gb.apply(resolve_ties).reset_index(drop=True). Every
\* frame resolve_ties returns keeps the index of its group, so with
\* group_keys=False pandas puts the rows back in table order.
groupby_apply(rows) ==
    [k \in 1..Len(rows) |->
        LET key == rows[k].base_code
            codes == resolve_ties(key, rows_with(rows, key))
        IN [codename |-> codes[position_in_group(rows, k)],
            sci_name |-> rows[k].sci_name,
            base_code |-> key]]

\* line 194: resolved[["codename", "sci_name"]].drop_duplicates()
RECURSIVE drop_duplicates(_, _)
drop_duplicates(rows, kept) ==
    IF rows = <<>> THEN kept
    ELSE LET r == [codename |-> Head(rows).codename, sci_name |-> Head(rows).sci_name]
         IN drop_duplicates(Tail(rows),
                            IF r \in Range(kept) THEN kept ELSE Append(kept, r))

\* the rows of the mapping whose codename is `key`, in mapping order
RECURSIVE matches(_, _)
matches(mapping, key) ==
    IF mapping = <<>> THEN <<>>
    ELSE (IF key # NaN /\ Head(mapping).codename = key THEN <<Head(mapping)>> ELSE <<>>)
         \o matches(Tail(mapping), key)

\* one left row joined to the mapping row right[1], or to none (right = <<>>)
merged_row(left, cols, right) ==
    [c \in Range(cols) \cup {"codename", "sci_name"} |->
        IF c \in Range(cols) THEN left[c]
        ELSE IF right = <<>> THEN NaN
        ELSE IF c = "codename" THEN right[1].codename ELSE right[1].sci_name]

\* line 197: the rows a left merge gives for the left row at position k
\* (one per mapping row with its key, or one with NaN when there is none),
\* each tagged with k, the position of the target record it comes from
merge_rows_of(air, mapping, k) ==
    LET left == air.rows[k]
        hit == matches(mapping, left[air_code_col])
    IN IF hit = <<>>
       THEN << [src |-> k, row |-> merged_row(left, air.columns, <<>>)] >>
       ELSE [m \in 1..Len(hit) |->
                [src |-> k, row |-> merged_row(left, air.columns, <<hit[m]>>)]]

merge_left(air, mapping) ==
    Flatten([k \in 1..Len(air.rows) |-> merge_rows_of(air, mapping, k)])

\* mutant: every row counts as blank
name_is_blank_always(v) == TRUE

\* line 203: isna() | (astype(str).str.strip() == "")
name_is_blank(v) ==
    \/ v = NaN
    \/ strip(v, Whitespace) = <<>>

\* the reference names main() is run on
PlantPool ==
    { <<"A","b","a","b"," ","a","a","a","a">>,
      <<"A","b","a","b"," ","a","a","a","b"," ","(","L",".",")">>,
      <<"A","b","a","b"," ","a","a","a"," ","v","a","r","."," ","a">>,
      <<"A","b","a","b"," ","a","a","a">>,
      <<"A","b","a","b"," ","a","a"," ","s","u","b","s","p","."," ","A">>,
      <<"1","9"," ","(","L",".",")">> }

\* the cells of the target table: read_csv gives NaN for an empty field
AirCodes == { <<"a","b","a","a","a","a","a">>, <<"a","b","a","a","a","a">>,
              <<"z","z">>, NaN }
AirNames == { NaN, <<" ", "\n">>, <<"F","o","o">> }
AirColumns == { <<air_code_col, name_col, site_col>>, <<air_code_col, site_col>> }

air_row(cols, code, name) ==
    [c \in Range(cols) |->
        IF c = air_code_col THEN code
        ELSE IF c = name_col THEN name
        ELSE <<"s">>]

InitMain ==
    /\ pc = "main_read"
    /\ MainIdle /\ ParseIdle /\ TieIdle

\* lines 162-163: the two tables robust_read returns. The reference table
\* has at least one row, the target table has its lookup column, and
\* neither has a column named codename or sci_name of its own.
ReadData ==
    /\ pc = "main_read"
    /\ \E cols \in AirColumns, n \in 0..MaxAirRows :
          \E cells \in [1..n -> AirCodes \X AirNames] :
              air_df' = [columns |-> cols,
                         rows |-> [k \in 1..n |->
                                      air_row(cols, cells[k][1], cells[k][2])]]
    /\ \E n \in 1..MaxPlantRows : plant_df' \in [1..n -> PlantPool]
    /\ pc' = "main_parse"
    /\ UNCHANGED <<plant_parsed, resolved, mapping_df, merged, is_blank,
                   out_joined, parseVars, tieVars>>

\* lines 166-186
ParseNames ==
    /\ pc = "main_parse"
    /\ plant_parsed' = [k \in 1..Len(plant_df) |-> parsed_row(plant_df[k])]
    /\ pc' = "main_resolve"
    /\ UNCHANGED <<air_df, plant_df, resolved, mapping_df, merged, is_blank,
                   out_joined, parseVars, tieVars>>

\* lines 188-194
ResolveAndMap ==
    /\ pc = "main_resolve"
    /\ resolved' = groupby_apply(plant_parsed)
    /\ mapping_df' = drop_duplicates(resolved', <<>>)
    /\ pc' = "main_merge"
    /\ UNCHANGED <<air_df, plant_df, plant_parsed, merged, is_blank,
                   out_joined, parseVars, tieVars>>

\* the dtype read_csv gives the lookup column: float64 when the table has
\* rows and every cell of the column is missing, object otherwise
lookup_is_float(air) ==
    /\ Len(air.rows) > 0
    /\ \A k \in 1..Len(air.rows) : air.rows[k][air_code_col] = NaN

\* line 197: merge raises ValueError on a float64 key against the str
\* codename column
MergeDtypeError ==
    /\ pc = "main_merge"
    /\ lookup_is_float(air_df)
    /\ pc' = "main_error"
    /\ UNCHANGED <<mainVars, parseVars, tieVars>>

\* line 197
Merge ==
    /\ pc = "main_merge"
    /\ ~lookup_is_float(air_df)
    /\ merged' = [columns |-> air_df.columns \o <<"codename", "sci_name">>,
                  rows |-> merge_left(air_df, mapping_df)]
    /\ pc' = "main_check"
    /\ UNCHANGED <<air_df, plant_df, plant_parsed, resolved, mapping_df,
                   is_blank, out_joined, parseVars, tieVars>>

\* lines 200-201: raise ValueError
MissingNameColumn ==
    /\ pc = "main_check"
    /\ name_col \notin Range(merged.columns)
    /\ pc' = "main_error"
    /\ UNCHANGED <<mainVars, parseVars, tieVars>>

\* lines 203-204
FillBlank ==
    /\ pc = "main_check"
    /\ name_col \in Range(merged.columns)
    /\ is_blank' = [k \in 1..Len(merged.rows) |->
                       name_is_blank(merged.rows[k].row[name_col])]
    /\ merged' = [merged EXCEPT !.rows =
                     [k \in 1..Len(merged.rows) |->
                         IF is_blank'[k]
                         THEN [merged.rows[k] EXCEPT
                                  !.row[name_col] = merged.rows[k].row["sci_name"]]
                         ELSE merged.rows[k]]]
    /\ pc' = "main_write"
    /\ UNCHANGED <<air_df, plant_df, plant_parsed, resolved, mapping_df,
                   out_joined, parseVars, tieVars>>

\* line 206
WriteCsv ==
    /\ pc = "main_write"
    /\ out_joined' = [columns |-> merged.columns,
                      rows |-> [k \in 1..Len(merged.rows) |-> merged.rows[k].row]]
    /\ pc' = "main_done"
    /\ UNCHANGED <<air_df, plant_df, plant_parsed, resolved, mapping_df,
                   merged, is_blank, parseVars, tieVars>>

Next ==
    \/ ReadData \/ ParseNames \/ ResolveAndMap \/ MergeDtypeError \/ Merge
    \/ MissingNameColumn \/ FillBlank \/ WriteCsv

Spec == InitMain /\ [][Next]_vars

-----------------------------------------------------------------------------
(* Properties of parse_scientific_name (SpecParse) *)

ParseDone == pc = "parse_done"

\* the characters of the model's alphabet that the canonicalizer turns into
\* a letter a-z: the ASCII letters and the accented Latin letters
LatinLetters == AZ \cup UpperAZ \cup {e_acute, E_acute}

has_latin_letter(tok) == \E k \in 1..Len(tok) : tok[k] \in LatinLetters

\* C8 as stated: a non-empty token list gives a non-empty genus, whatever
\* the first token consists of.
C8_Original ==
    (ParseDone /\ tokens # <<>>) => genus # <<>>

\* C8 amended: with a non-empty token list the genus is non-empty exactly
\* when the first token holds at least one Latin letter; species and
\* subspecies may be empty either way.
C8_GenusNonEmptyIffLetter ==
    (ParseDone /\ tokens # <<>>) => (genus # <<>> <=> has_latin_letter(tokens[1]))

\* a first token of letters and punctuation, parsed to the end of the name
C8_Witness ==
    /\ ParseDone /\ Len(tokens) = 3
    /\ has_latin_letter(tokens[1])
    /\ \E k \in 1..Len(tokens[1]) : tokens[1][k] \notin LatinLetters
    /\ genus # <<>> /\ species = <<>>

-----------------------------------------------------------------------------
(* Properties of resolve_ties (SpecTies) *)

TieDone == pc = "tie_done"

Members == 1..Len(group)

\* the letters of member k's epithet from offset 3 on
tail_of(k) == Suffix(group[k].species, 3)

NoDuplicates(codes) ==
    \A j, k \in 1..Len(codes) : j # k => codes[j] # codes[k]

\* C1: when resolve_ties returns, the group has exactly one codename per
\* member and no two members have the same codename.
C1_UniqueInGroup ==
    TieDone => /\ Len(codenames) = Len(group)
               /\ NoDuplicates(codenames)

\* a three-member group that needed both the extension and the suffix
C1_Witness ==
    /\ TieDone /\ Len(group) = 3
    /\ n_ext >= 1 /\ n_fallback = 1
    /\ pre_fallback # codenames
    /\ pre_fallback[1] # pre_fallback[2]
    /\ NoDuplicates(codenames)

\* C6 as stated: at the return the extension loop has run at most
\* max_epithet_length + 1 times and exactly one fallback pass has run.
C6_Original ==
    TieDone => /\ n_ext <= MaxLenOf([k \in Members |-> group[k].species]) + 1
               /\ n_fallback = 1

\* C6 amended: the extension loop never runs more than
\* max_epithet_length + 1 times, a group of more than one member gets
\* exactly one fallback pass and a single-member group gets none, and
\* resolve_ties is never stuck before its return.
C6_Termination ==
    /\ n_ext <= MaxLenOf([k \in Members |-> group[k].species]) + 1
    /\ n_fallback <= 1
    /\ TieDone => n_fallback = (IF Len(group) > 1 THEN 1 ELSE 0)
    /\ ~TieDone => ENABLED NextTies

\* a group whose loop ran to the end of its longest epithet, then the pass
C6_Witness ==
    /\ TieDone /\ Len(group) > 1
    /\ max_len > 3 /\ n_ext = max_len - 3
    /\ n_fallback = 1

\* C7 as stated: the first 3 characters of each codename are the member's
\* base key.
C7_Original ==
    TieDone => \A k \in Members : Prefix(codenames[k], 3) = row_base_code(group[k])

\* C7 amended: each member's codename starts with the member's whole base
\* key, however long the key is.
C7_BaseKeyPrefix ==
    TieDone =>
        \A k \in Members :
            LET b == row_base_code(group[k])
            IN Prefix(codenames[k], Len(b)) = b

\* a member with a base key of more than 3 letters, extended and suffixed
C7_Witness ==
    /\ TieDone /\ Len(group) > 1
    /\ \E k \in Members :
          /\ Len(row_base_code(group[k])) > 3
          /\ Len(pre_fallback[k]) > Len(base)
          /\ codenames[k] # pre_fallback[k]

\* C9: in row order, the first member holding a value after the extension
\* loop keeps it, the k-th member holding it (k >= 2) gets the decimal k
\* appended, and a value held once is unchanged.
C9_FallbackOrder ==
    (TieDone /\ Len(group) > 1) =>
        \A k \in Members :
            LET occ == Cardinality({j \in 1..k : pre_fallback[j] = pre_fallback[k]})
            IN codenames[k] = IF occ = 1 THEN pre_fallback[k]
                              ELSE pre_fallback[k] \o <<Digits[occ + 1]>>

\* three members left identical: the second gets 2 and the third 3
C9_Witness ==
    /\ TieDone /\ Len(group) >= 3
    /\ \E j, k \in Members :
          /\ j < k
          /\ codenames[j] = pre_fallback[j] \o <<"2">>
          /\ codenames[k] = pre_fallback[k] \o <<"3">>
    /\ codenames[1] = pre_fallback[1]

has_suffix(k) == codenames[k] # pre_fallback[k]

\* C10 as stated: a member gets a numeric suffix only if its full epithet
\* is that of an earlier member.
C10_Original ==
    (TieDone /\ Len(group) > 1) =>
        \A k \in Members :
            has_suffix(k) => \E j \in 1..(k - 1) : group[j].species = group[k].species

\* C10 amended: a member gets a numeric suffix exactly when its epithet
\* from offset 3 on is that of an earlier member; two members whose
\* epithets differ from offset 3 on leave the extension loop with different
\* codenames, each the base key followed by leading letters of its own
\* epithet from offset 3 on.
C10_SuffixOnlyForEqualTails ==
    (TieDone /\ Len(group) > 1) =>
        /\ \A k \in Members :
              has_suffix(k) <=> \E j \in 1..(k - 1) : tail_of(j) = tail_of(k)
        /\ \A j, k \in Members :
              tail_of(j) # tail_of(k) =>
                  /\ pre_fallback[j] # pre_fallback[k]
                  /\ \E m \in 0..Len(tail_of(k)) :
                        pre_fallback[k] = base \o Prefix(tail_of(k), m)

\* two members told apart by a letter and a third repeating an epithet tail
C10_Witness ==
    /\ TieDone /\ Len(group) = 3
    /\ \E j, k \in Members : tail_of(j) # tail_of(k) /\ Len(pre_fallback[k]) > Len(base)
    /\ \E k \in Members : has_suffix(k)

-----------------------------------------------------------------------------
(* Properties of main (Spec) *)

MainDone == pc = "main_done"

\* the target record the k-th output row was joined from
source_row(k) == air_df.rows[merged.rows[k].src]

\* the output row k had no entry in the mapping for its lookup key
no_match(k) == matches(mapping_df, source_row(k)[air_code_col]) = <<>>

\* C2: once every group is resolved, no two rows of the reference table
\* have the same codename, in the same group or in different groups.
C2_UniqueInTable ==
    pc \in {"main_merge", "main_check", "main_write", "main_error", "main_done"}
        => NoDuplicates([k \in 1..Len(resolved) |-> resolved[k].codename])

\* C3 as stated: a name that is neither the empty string nor the missing
\* value before the join is the same after the join.
C3_Original ==
    MainDone =>
        \A k \in 1..Len(out_joined.rows) :
            LET before == source_row(k)[name_col]
            IN (before # NaN /\ before # <<>>) => out_joined.rows[k][name_col] = before

\* C3 amended: a name that is not the missing value and holds at least one
\* character that is not whitespace before the join is the same after the
\* join, whether or not the lookup key has an entry in the mapping.
C3_FillOnly ==
    MainDone =>
        \A k \in 1..Len(out_joined.rows) :
            LET before == source_row(k)[name_col]
            IN (before # NaN /\ \E m \in 1..Len(before) : before[m] \notin Whitespace)
                   => out_joined.rows[k][name_col] = before

\* a populated name on a record whose key is in the mapping, and a blank
\* one that was filled
C3_Witness ==
    /\ MainDone
    /\ \E k \in 1..Len(out_joined.rows) :
          /\ ~no_match(k)
          /\ source_row(k)[name_col] = <<"F","o","o">>
          /\ out_joined.rows[k][name_col] = <<"F","o","o">>
          /\ out_joined.rows[k]["sci_name"] # <<"F","o","o">>

\* C4: a target record whose lookup key has no entry in the mapping is the
\* same in the output in every field, the name field included.
C4_UnchangedOnNoMatch ==
    MainDone =>
        \A k \in 1..Len(out_joined.rows) :
            no_match(k) =>
                \A c \in Range(air_df.columns) :
                    out_joined.rows[k][c] = source_row(k)[c]

\* C5: the output has exactly the columns of the input target table.
C5_SameColumns ==
    MainDone => out_joined.columns = air_df.columns
=============================================================================
